---- MODULE Spec2Model ----
(***************************************************************************)
(* The browser harness of the Game of Life (www/index.js): the FPS timer,  *)
(* the render loop driven by requestAnimationFrame, the play/pause button, *)
(* the canvas click handler and the drawing of the bit-packed cells.       *)
(*                                                                         *)
(* One action is one task of the host's event loop run to completion: the  *)
(* startup script, a fired animation-frame callback, a click on the        *)
(* button, a click on the canvas.  A handler is the composition of the     *)
(* functions it calls, each a function from program state to program state.*)
(***************************************************************************)
EXTENDS Integers, Sequences, FiniteSets

(* ------------------------------ bounds -------------------------------- *)
MaxWidth == 4
MaxHeight == 2
MaxTicks == 4
MaxClicks == 1
MaxRenders == 102

(* ------------------------- program constants -------------------------- *)
CELL_SIZE == 5
GRID_COLOR == "#CCCCCC"
DEAD_COLOR == "#FFFFFF"
ALIVE_COLOR == "#000000"
PAUSE_SYMBOL == "pause-symbol"
PLAY_SYMBOL == "play-symbol"
FramesKept == 100
Null == 0

VARIABLES
  pc,                  \* "startup" before the startup lines ran, then "idle"
  width, height,       \* universe.width(), universe.height()
  cells,               \* the engine's packed cell bytes, byte index -> 0..255
  generation,          \* number of universe.tick() calls so far
  animationId,         \* Null or the handle of the requested frame
  pending,             \* the host's list of animation-frame callbacks (handles)
  nextId,              \* the host's next animation-frame handle
  frames,              \* fps.frames
  lastFrameTimeStamp,  \* fps.lastFrameTimeStamp
  fpsText,             \* fps.fps.textContent
  buttonText,          \* playPauseButton.textContent
  gridLines,           \* the lines stroked by the last drawGrid
  fills,               \* the fillRect calls of the last drawCells, in order
  bytesRead,           \* the view indices the last drawCells read
  viewLength,          \* the length of the view the last drawCells built
  calls,               \* the calls made by the last handler, in order
  toggled,             \* the (row, col) arguments of its toggle_cell calls
  drawn,               \* the generation drawn by each of its drawCells calls
  handler,             \* the last handler that ran
  click,               \* the input of the last canvas click
  clicks,              \* number of canvas clicks so far
  renders,             \* number of fps.render() calls so far
  samples              \* every fps sample so far, in arrival order

vars == <<pc, width, height, cells, generation, animationId, pending, nextId,
          frames, lastFrameTimeStamp, fpsText, buttonText, gridLines, fills,
          bytesRead, viewLength, calls, toggled, drawn, handler, click,
          clicks, renders, samples>>

Min(a, b) == IF a < b THEN a ELSE b

\* the element of a one-element set.  The functions below take the state
\* they start from as the bound variable r of such a set, so that the state
\* is a value, computed once, wherever the function uses it.
Only(S) == CHOOSE x \in S : TRUE

(* --------------------------- the universe ----------------------------- *)
NCells == width * height
NBytes == (NCells + 7) \div 8

\* bit n of a packed byte array, counted from the least significant bit
PackedBit(bytes, n) == (bytes[n \div 8] \div (2 ^ (n % 8))) % 2

BitOr0(alive, n) == IF n < NCells /\ alive[n] THEN 1 ELSE 0

\* the packed bytes of a row-major map cell index -> alive
Pack(alive) ==
  [b \in 0..(NBytes - 1) |->
     BitOr0(alive, 8 * b) + 2 * BitOr0(alive, 8 * b + 1)
     + 4 * BitOr0(alive, 8 * b + 2) + 8 * BitOr0(alive, 8 * b + 3)
     + 16 * BitOr0(alive, 8 * b + 4) + 32 * BitOr0(alive, 8 * b + 5)
     + 64 * BitOr0(alive, 8 * b + 6) + 128 * BitOr0(alive, 8 * b + 7)]

\* Universe.new(): the seeds the model starts from
InitialCells ==
  { Pack([n \in 0..(NCells - 1) |-> (n % 2 = 0) \/ (n % 7 = 0)]),
    Pack([n \in 0..(NCells - 1) |-> FALSE]) }

NeighbourOffsets == ({-1, 0, 1} \X {-1, 0, 1}) \ {<<0, 0>>}

LiveNeighbours(bytes, row, col) ==
  Cardinality({d \in NeighbourOffsets :
     PackedBit(bytes, ((row + d[1] + height) % height) * width
                      + ((col + d[2] + width) % width)) = 1})

NextAlive(bytes, n) ==
  LET k == LiveNeighbours(bytes, n \div width, n % width)
  IN  IF PackedBit(bytes, n) = 1 THEN k \in {2, 3} ELSE k = 3

\* universe.tick(): one generation of Conway's rule on the wrapped grid
UniverseTick(s) ==
  Only({[r EXCEPT
           !.calls = Append(@, "tick"),
           !.generation = @ + 1,
           !.cells = Pack([n \in 0..(NCells - 1) |-> NextAlive(r.cells, n)])]
        : r \in {s}})

\* universe.toggle_cell(row, col): flips the bit of cell row*width+col
UniverseToggleCell(s, row, col) ==
  LET n == row * width + col
      bit == 2 ^ (n % 8)
  IN  Only({[r EXCEPT !.calls = Append(@, "toggle_cell"),
                      !.toggled = Append(@, <<row, col>>),
                      !.cells = IF n \in 0..(NCells - 1)
                                THEN [@ EXCEPT ![n \div 8] =
                                        IF PackedBit(r.cells, n) = 1
                                        THEN @ - bit ELSE @ + bit]
                                ELSE @]
            : r \in {s}})

(* ------------------------------ fps ----------------------------------- *)
\* 1 / delta * 1000, in thousandths of a frame per second
FpsOf(delta) == 1000000 \div delta

\* Math.round of a value in thousandths
Round(milli) == (milli + 500) \div 1000

RECURSIVE SumSeq(_)
SumSeq(q) == IF q = <<>> THEN 0 ELSE q[1] + SumSeq(Tail(q))

SeqMin(q) == CHOOSE v \in {q[i] : i \in 1..Len(q)} :
               \A i \in 1..Len(q) : v <= q[i]
SeqMax(q) == CHOOSE v \in {q[i] : i \in 1..Len(q)} :
               \A i \in 1..Len(q) : v >= q[i]

\* the push with the length test off by one: shifts at 100 entries already
KeepLatestOffByOne(q, fps) ==
  LET pushed == Append(q, fps)
  IN  IF Len(pushed) >= FramesKept THEN Tail(pushed) ELSE pushed

\* this.frames.push(fps); if (this.frames.length > 100) this.frames.shift()
KeepLatest(q, fps) ==
  LET pushed == Append(q, fps)
  IN  IF Len(pushed) > FramesKept THEN Tail(pushed) ELSE pushed

FpsRender(s, now) ==
  Only({LET delta == now - r.lastFrameTimeStamp
            fps == FpsOf(delta)
        IN  Only({[r EXCEPT
                     !.calls = Append(@, "fps.render"),
                     !.lastFrameTimeStamp = now,
                     !.frames = kept,
                     !.fpsText = [latest |-> Round(fps),
                                  avg |-> Round(SumSeq(kept) \div Len(kept)),
                                  min |-> Round(SeqMin(kept)),
                                  max |-> Round(SeqMax(kept))],
                     !.renders = @ + 1,
                     !.samples = Append(@, fps)]
                  : kept \in {KeepLatest(r.frames, fps)}})
        : r \in {s}})

(* ----------------------------- drawing -------------------------------- *)
CanvasHeight == (CELL_SIZE + 1) * height + 1
CanvasWidth == (CELL_SIZE + 1) * width + 1

DrawGrid(s) ==
  [s EXCEPT !.calls = Append(@, "drawGrid"),
            !.gridLines =
              {<<i * (CELL_SIZE + 1) + 1, 0,
                 i * (CELL_SIZE + 1) + 1, (CELL_SIZE + 1) * height + 1>>
                 : i \in 0..width}
              \cup
              {<<0, j * (CELL_SIZE + 1) + 1,
                 (CELL_SIZE + 1) * width + 1, j * (CELL_SIZE + 1) + 1>>
                 : j \in 0..height}]

GetIndex(row, column) == row * width + column

\* Math.floor(n / 8)
ByteOf(n) == n \div 8

\* new Uint8Array(memory.buffer, cellsPtr, width * height / 8): the length is
\* truncated to an integer
ViewLength == (width * height) \div 8

CellsView(bytes) == [i \in 0..(ViewLength - 1) |-> bytes[i]]

\* arr[byte] & mask, for a one-bit mask; arr[byte] is undefined outside the
\* view and undefined & mask is 0
AndMask(arr, byte, mask) ==
  IF byte \in DOMAIN arr THEN ((arr[byte] \div mask) % 2) * mask ELSE 0

BitIsSet(n, arr) ==
  LET byte == ByteOf(n)
      mask == 2 ^ (n % 8)
  IN  AndMask(arr, byte, mask) = mask

DrawCells(s) ==
  Only({Only({[r EXCEPT
         !.calls = Append(@, "drawCells"),
         !.drawn = Append(@, r.generation),
         !.viewLength = ViewLength,
         !.bytesRead = {ByteOf(GetIndex(row, col)) :
                          row \in 0..(height - 1), col \in 0..(width - 1)},
         !.fills =
           [k \in 1..(width * height) |->
              LET row == (k - 1) \div width
                  col == (k - 1) % width
              IN  [x |-> col * (CELL_SIZE + 1) + 1,
                   y |-> row * (CELL_SIZE + 1) + 1,
                   w |-> CELL_SIZE,
                   h |-> CELL_SIZE,
                   fillStyle |-> IF BitIsSet(GetIndex(row, col), arr)
                                 THEN ALIVE_COLOR ELSE DEAD_COLOR]]]
          : arr \in {CellsView(r.cells)}})
        : r \in {s}})

(* ------------------------- the render loop ---------------------------- *)
\* the host's requestAnimationFrame(renderLoop), its handle assigned to
\* animationId
RequestAnimationFrame(s) ==
  Only({[r EXCEPT !.calls = Append(@, "requestAnimationFrame"),
                  !.pending = @ \cup {r.nextId},
                  !.animationId = r.nextId,
                  !.nextId = @ + 1]
        : r \in {s}})

\* renderLoop that requests the next frame only when none was requested
\* before, so that a fired callback is not followed by another
RenderLoopRequestsOnce(s, now) ==
  LET done == DrawCells(DrawGrid(UniverseTick(
                FpsRender([s EXCEPT !.calls = Append(@, "renderLoop")], now))))
  IN  IF s.animationId = Null THEN RequestAnimationFrame(done) ELSE done

\* renderLoop that advances the universe twice per frame
RenderLoopTicksTwice(s, now) ==
  RequestAnimationFrame(
    DrawCells(DrawGrid(UniverseTick(UniverseTick(
      FpsRender([s EXCEPT !.calls = Append(@, "renderLoop")], now))))))

RenderLoop(s, now) ==
  RequestAnimationFrame(
    DrawCells(DrawGrid(UniverseTick(
      FpsRender([s EXCEPT !.calls = Append(@, "renderLoop")], now)))))

IsPaused(s) == s.animationId = Null

\* play() that forgets to set the button's text
PlayKeepsLabel(s, now) ==
  RenderLoop([s EXCEPT !.calls = Append(@, "play")], now)

Play(s, now) ==
  RenderLoop([s EXCEPT !.calls = Append(@, "play"),
                       !.buttonText = PAUSE_SYMBOL], now)

\* the host's cancelAnimationFrame(id)
CancelAnimationFrame(s, id) ==
  Only({[r EXCEPT !.calls = Append(@, "cancelAnimationFrame"),
                  !.pending = @ \ {h}]
        : r \in {s}, h \in {id}})

\* pause() that forgets cancelAnimationFrame(animationId)
PauseNoCancel(s) ==
  [s EXCEPT !.calls = Append(@, "pause"), !.buttonText = PLAY_SYMBOL,
            !.animationId = Null]

\* pause() that forgets animationId = null
PauseKeepsId(s) ==
  Only({CancelAnimationFrame(
          [r EXCEPT !.calls = Append(@, "pause"), !.buttonText = PLAY_SYMBOL],
          r.animationId)
        : r \in {s}})

Pause(s) ==
  Only({[CancelAnimationFrame(
           [r EXCEPT !.calls = Append(@, "pause"),
                     !.buttonText = PLAY_SYMBOL],
           r.animationId)
         EXCEPT !.animationId = Null]
        : r \in {s}})

PlayPauseListener(s, now) ==
  IF IsPaused(s) THEN Play(s, now) ELSE Pause(s)

(* ------------------------- the canvas click --------------------------- *)
\* the division by the cell size without its 1px border
CellIndexNoBorder(offset, canvasSize, rectSize) ==
  (offset * canvasSize) \div (rectSize * CELL_SIZE)

\* Math.floor(coord / (CELL_SIZE + 1)) for the coordinate
\* coord = offset * (canvasSize / rectSize), offset = event.client - rect edge
CellIndex(offset, canvasSize, rectSize) ==
  (offset * canvasSize) \div (rectSize * (CELL_SIZE + 1))

\* the index left unclamped
ClampIndexNone(index, n) == index

\* Math.min(index, n - 1)
ClampIndex(index, n) == Min(index, n - 1)

\* the click listener that also advances the universe before it redraws
CanvasClickListenerTicks(s, x, y, rectWidth, rectHeight) ==
  LET row == ClampIndex(CellIndex(y, CanvasHeight, rectHeight), height)
      col == ClampIndex(CellIndex(x, CanvasWidth, rectWidth), width)
  IN  DrawCells(DrawGrid(UniverseTick(UniverseToggleCell(s, row, col))))

CanvasClickListener(s, x, y, rectWidth, rectHeight) ==
  LET row == ClampIndex(CellIndex(y, CanvasHeight, rectHeight), height)
      col == ClampIndex(CellIndex(x, CanvasWidth, rectWidth), width)
  IN  DrawCells(DrawGrid(UniverseToggleCell(s, row, col)))

(* --------------------------- the machine ------------------------------ *)
\* the program state a handler starts from, its call record emptied
Begin(name) ==
  [cells |-> cells, generation |-> generation, animationId |-> animationId,
   pending |-> pending, nextId |-> nextId, frames |-> frames,
   lastFrameTimeStamp |-> lastFrameTimeStamp, fpsText |-> fpsText,
   buttonText |-> buttonText, gridLines |-> gridLines, fills |-> fills,
   bytesRead |-> bytesRead, viewLength |-> viewLength,
   calls |-> <<>>, toggled |-> <<>>, drawn |-> <<>>,
   handler |-> name, renders |-> renders, samples |-> samples]

Commit(s) ==
  \E r \in {s} :
    /\ cells' = r.cells
    /\ generation' = r.generation
    /\ animationId' = r.animationId
    /\ pending' = r.pending
    /\ nextId' = r.nextId
    /\ frames' = r.frames
    /\ lastFrameTimeStamp' = r.lastFrameTimeStamp
    /\ fpsText' = r.fpsText
    /\ buttonText' = r.buttonText
    /\ gridLines' = r.gridLines
    /\ fills' = r.fills
    /\ bytesRead' = r.bytesRead
    /\ viewLength' = r.viewLength
    /\ calls' = r.calls
    /\ toggled' = r.toggled
    /\ drawn' = r.drawn
    /\ handler' = r.handler
    /\ renders' = r.renders
    /\ samples' = r.samples

NoClick == [x |-> 0, y |-> 0, rectWidth |-> 0, rectHeight |-> 0]

Init ==
  /\ pc = "startup"
  /\ width \in 1..MaxWidth
  /\ height \in 1..MaxHeight
  /\ cells \in InitialCells
  /\ generation = 0
  /\ animationId = Null
  /\ pending = {}
  /\ nextId = 1
  /\ frames = <<>>
  /\ lastFrameTimeStamp = 0
  /\ fpsText = [latest |-> 0, avg |-> 0, min |-> 0, max |-> 0]
  /\ buttonText = ""
  /\ gridLines = {}
  /\ fills = <<>>
  /\ bytesRead = {}
  /\ viewLength = 0
  /\ calls = <<>>
  /\ toggled = <<>>
  /\ drawn = <<>>
  /\ handler = "none"
  /\ click = NoClick
  /\ clicks = 0
  /\ renders = 0
  /\ samples = <<>>

\* the startup lines with the former requestAnimationFrame(renderLoop) kept
\* beside play()
StartupScriptBoth(s, now) ==
  Play(RequestAnimationFrame(DrawCells(DrawGrid(s))), now)

\* the startup lines without the drawGrid(); drawCells(); before play()
StartupScriptNoPredraw(s, now) == Play(s, now)

\* the startup lines: drawGrid(); drawCells(); play();
StartupScript(s, now) == Play(DrawCells(DrawGrid(s)), now)

Startup(delta) ==
  /\ pc = "startup"
  /\ pc' = "idle"
  /\ Commit(StartupScript(Begin("startup"), lastFrameTimeStamp + delta))
  /\ UNCHANGED <<width, height, click, clicks>>

\* the host fires the queued callback id: it leaves the list, then runs
FrameCallback(id, delta, limit) ==
  /\ pc = "idle"
  /\ id \in pending
  /\ renders < limit
  /\ Commit(RenderLoop([Begin("frame") EXCEPT !.pending = @ \ {id}],
                       lastFrameTimeStamp + delta))
  /\ UNCHANGED <<pc, width, height, click, clicks>>

PlayPauseClick(delta, limit) ==
  /\ pc = "idle"
  /\ IsPaused(Begin("button")) => renders < limit
  /\ Commit(PlayPauseListener(Begin("button"), lastFrameTimeStamp + delta))
  /\ UNCHANGED <<pc, width, height, click, clicks>>

\* the sizes getBoundingClientRect() may report for a canvas dimension:
\* unscaled, or shown at half size
RectSizes(canvasSize) == {canvasSize, (canvasSize + 1) \div 2}

CanvasClick(x, y, rectWidth, rectHeight, limit) ==
  /\ pc = "idle"
  /\ clicks < limit
  /\ clicks' = clicks + 1
  /\ click' = [x |-> x, y |-> y, rectWidth |-> rectWidth,
               rectHeight |-> rectHeight]
  /\ Commit(CanvasClickListener(Begin("canvas"), x, y, rectWidth, rectHeight))
  /\ UNCHANGED <<pc, width, height>>

\* the canvas coordinate of the middle of cell number i of a row or column
Centre(i) == i * (CELL_SIZE + 1) + 1 + CELL_SIZE \div 2

\* the time the host's clock (performance.now()) advances between two
\* renders, in ms
FrameMs == {16}

\* the event loop: clicks land on the middle of a cell of the unscaled canvas
Next ==
  \/ \E d \in FrameMs : Startup(d)
  \/ \E id \in pending, d \in FrameMs : FrameCallback(id, d, MaxTicks)
  \/ \E d \in FrameMs : PlayPauseClick(d, MaxTicks)
  \/ \E row \in 0..(height - 1), col \in 0..(width - 1) :
       CanvasClick(Centre(col), Centre(row), CanvasWidth, CanvasHeight,
                   MaxClicks)

Spec == Init /\ [][Next]_vars

\* the host fires a queued animation-frame callback
HostFiresFrame ==
  \E id \in pending, d \in FrameMs : FrameCallback(id, d, MaxTicks)

\* the event loop with clicks on the first cell of the canvas
NextLive ==
  \/ \E d \in FrameMs : Startup(d)
  \/ HostFiresFrame
  \/ \E d \in FrameMs : PlayPauseClick(d, MaxTicks)
  \/ CanvasClick(Centre(0), Centre(0), CanvasWidth, CanvasHeight, MaxClicks)

\* that event loop with a host that eventually fires every callback that
\* stays queued (one that is not cancelled)
SpecLive == Init /\ [][NextLive]_vars /\ WF_vars(HostFiresFrame)

\* one click anywhere on the canvas, unscaled or scaled, while the game runs
\* or is paused after startup
NextClick ==
  \/ \E d \in FrameMs : Startup(d)
  \/ \E d \in FrameMs : PlayPauseClick(d, 1)
  \/ \E rw \in RectSizes(CanvasWidth), rh \in RectSizes(CanvasHeight) :
       \E x \in 0..rw, y \in 0..rh : CanvasClick(x, y, rw, rh, 1)

SpecClick == Init /\ [][NextClick]_vars

\* the FPS timer over a long run: no canvas clicks, every render one
\* millisecond slower than the one before
NextFps ==
  \/ Startup(1)
  \/ \E id \in pending : FrameCallback(id, renders + 1, MaxRenders)
  \/ PlayPauseClick(renders + 1, MaxRenders)

SpecFps == Init /\ [][NextFps]_vars

(* ============================ the claims ============================== *)
Range(q) == {q[i] : i \in DOMAIN q}
Count(q, name) == Cardinality({i \in DOMAIN q : q[i] = name})
Draws(q) == "drawGrid" \in Range(q) \/ "drawCells" \in Range(q)

\* C1, as stated: after pause() no drawing (no call of drawGrid or drawCells)
\* occurs until play() resumes the game: no step that starts and ends paused
\* draws.
C1_NoDrawingWhilePaused ==
  [][(pc = "idle" /\ animationId = Null /\ animationId' = Null)
       => ~Draws(calls')]_vars

\* C1, amended: while the game is paused no frame callback runs, and the only
\* handler that draws and leaves the game paused is the canvas click, which
\* redraws without running renderLoop.
C1_PausedDrawsOnlyOnCanvasClick ==
  [][(pc = "idle" /\ animationId = Null)
       => /\ handler' # "frame"
          /\ (animationId' = Null /\ Draws(calls'))
                => (handler' = "canvas" /\ "renderLoop" \notin Range(calls'))]_vars

\* C1 witness: a canvas click has redrawn while the game is paused.
C1_Witness ==
  pc = "idle" /\ animationId = Null /\ handler = "canvas" /\ Draws(calls)

\* C2: between handlers, animationId is null exactly when no animation-frame
\* callback is queued with the host.
C2_NullIffNothingQueued ==
  pc = "idle" =>
    /\ (animationId = Null) <=> (pending = {})
    /\ IsPaused([animationId |-> animationId]) <=> (pending = {})

\* C2 witness: pause() has run and left nothing queued.
C2_Witness ==
  /\ pc = "idle" /\ handler = "button" /\ "pause" \in Range(calls)
  /\ animationId = Null /\ pending = {}

\* C3: at most one callback is queued at any time, and a handler requests the
\* next frame only as its last call, after the tick, drawGrid and drawCells of
\* the same renderLoop.
C3_AtMostOneCallbackQueued ==
  /\ Cardinality(pending) <= 1
  /\ \A i \in DOMAIN calls :
        calls[i] = "requestAnimationFrame" =>
          /\ i = Len(calls)
          /\ \E r, t, g, c \in DOMAIN calls :
                /\ r < t /\ t < g /\ g < c /\ c < i
                /\ calls[r] = "renderLoop" /\ calls[t] = "tick"
                /\ calls[g] = "drawGrid" /\ calls[c] = "drawCells"

\* C3 witness: a click on the button has resumed a paused game and exactly
\* one callback is queued.
C3_Witness ==
  /\ handler = "button" /\ "play" \in Range(calls)
  /\ Cardinality(pending) = 1

\* the canvas click landed on the canvas: 0 <= canvasLeft <= canvas.width
\* and 0 <= canvasTop <= canvas.height, canvasLeft = x * canvas.width /
\* rectWidth
ClickOnCanvas ==
  /\ handler = "canvas"
  /\ 0 <= click.x /\ click.x * CanvasWidth <= CanvasWidth * click.rectWidth
  /\ 0 <= click.y /\ click.y * CanvasHeight <= CanvasHeight * click.rectHeight

\* C4: a click that lies within the canvas calls toggle_cell exactly once,
\* with 0 <= row < height and 0 <= col < width.
C4_ClickTogglesOneCellInRange ==
  ClickOnCanvas =>
    /\ Count(calls, "toggle_cell") = 1
    /\ Len(toggled) = 1
    /\ toggled[1][1] \in 0..(height - 1)
    /\ toggled[1][2] \in 0..(width - 1)

\* C4 witness: a click on the far corner of a scaled canvas toggled the last
\* cell.
C4_Witness ==
  /\ ClickOnCanvas
  /\ click.rectWidth # CanvasWidth /\ click.rectHeight # CanvasHeight
  /\ click.x = click.rectWidth /\ click.y = click.rectHeight
  /\ toggled = << <<height - 1, width - 1>> >>

UnscaledClick ==
  /\ handler = "canvas"
  /\ click.rectWidth = CanvasWidth /\ click.rectHeight = CanvasHeight

InFill(x, y, f) ==
  /\ f.x <= x /\ x < f.x + f.w
  /\ f.y <= y /\ y < f.y + f.h

\* C5: with scale 1, a click on a pixel inside the rectangle drawCells fills
\* for cell (row, col), at col*(CELL_SIZE+1)+1 and row*(CELL_SIZE+1)+1 with
\* side CELL_SIZE, toggles exactly cell (row, col).
C5_ClickMatchesDrawnCell ==
  UnscaledClick =>
    \A row \in 0..(height - 1), col \in 0..(width - 1) :
      LET f == fills[row * width + col + 1]
      IN  /\ f.x = col * (CELL_SIZE + 1) + 1 /\ f.w = CELL_SIZE
          /\ f.y = row * (CELL_SIZE + 1) + 1 /\ f.h = CELL_SIZE
          /\ InFill(click.x, click.y, f) => toggled = << <<row, col>> >>

\* C5 witness: a click on the last pixel of the rectangle of a cell that is
\* neither in the first row nor in the first column toggled that cell.
C5_Witness ==
  /\ UnscaledClick
  /\ \E row \in 1..(height - 1), col \in 1..(width - 1) :
        LET f == fills[row * width + col + 1]
        IN  /\ click.x = f.x + f.w - 1 /\ click.y = f.y + f.h - 1
            /\ toggled = << <<row, col>> >>

\* C6, as stated: drawCells paints each of the width*height cells once, in
\* row-major order, cell (row, col) with ALIVE_COLOR if and only if bit
\* row*width+col of the packed cell array is set and with DEAD_COLOR
\* otherwise.
C6_PaintMatchesPackedBits ==
  pc = "idle" =>
    /\ Len(fills) = width * height
    /\ \A row \in 0..(height - 1), col \in 0..(width - 1) :
          LET n == row * width + col
          IN  /\ fills[n + 1].x = col * (CELL_SIZE + 1) + 1
              /\ fills[n + 1].y = row * (CELL_SIZE + 1) + 1
              /\ fills[n + 1].fillStyle =
                   IF PackedBit(cells, n) = 1 THEN ALIVE_COLOR ELSE DEAD_COLOR

\* C7: after n calls of fps.render(), frames has length min(n, 100) and
\* holds the most recent min(n, 100) samples in arrival order.
C7_FramesHoldLatest ==
  /\ Len(samples) = renders
  /\ Len(frames) = Min(renders, FramesKept)
  /\ frames = SubSeq(samples, renders - Min(renders, FramesKept) + 1, renders)

\* C7 witness: the 101st sample has been pushed and the oldest one dropped.
C7_Witness ==
  /\ renders = FramesKept + 1
  /\ Len(frames) = FramesKept
  /\ frames[1] = samples[2] /\ frames[1] # samples[1]
  /\ frames[FramesKept] = samples[FramesKept + 1]

C9_TickOnlyInHostFiredFrame ==
  "tick" \in Range(calls) => handler = "frame"

\* C9, amended: every universe.tick() call happens inside a renderLoop
\* execution, which the host fired as an animation-frame callback or play()
\* called directly (at startup, on a click on the button of a paused game),
\* and every renderLoop execution calls tick exactly once.
C9_TickOncePerRenderLoop ==
  /\ Count(calls, "renderLoop") <= 1
  /\ Count(calls, "tick") = Count(calls, "renderLoop")
  /\ \A t \in DOMAIN calls :
        calls[t] = "tick" =>
          /\ \E r \in 1..t : calls[r] = "renderLoop"
          /\ \/ handler = "frame"
             \/ /\ handler \in {"startup", "button"}
                /\ \E q \in 1..t : calls[q] = "play"

\* C9 witness: a click on the button of a paused game has ticked the
\* universe, with no callback fired by the host.
C9_Witness ==
  handler = "button" /\ "play" \in Range(calls) /\ "tick" \in Range(calls)

\* C10, as stated: every byte drawCells reads lies inside the view it
\* builds, for all universe dimensions: floor((row*width+col)/8) is smaller
\* than the view's length, width*height/8 truncated.
C10_ReadsInsideView ==
  pc = "idle" =>
    /\ \A row \in 0..(height - 1), col \in 0..(width - 1) :
          ByteOf(GetIndex(row, col)) < ViewLength
    /\ \A b \in bytesRead : b < viewLength

\* C11: while the game is paused universe.tick() is never called: a step
\* that starts and ends paused leaves the generation unchanged and changes
\* the cells only by the toggle_cell call of a canvas click; the callback
\* that pause() cancelled never runs: the host only ever fires the handle
\* animationId holds.
C11_NoTickWhilePaused ==
  [][/\ (pc = "idle" /\ animationId = Null /\ animationId' = Null)
          => /\ generation' = generation
             /\ "tick" \notin Range(calls')
             /\ cells' # cells
                  => (handler' = "canvas" /\ Count(calls', "toggle_cell") = 1)
     /\ handler' = "frame"
          => (animationId # Null /\ pending = {animationId})]_vars

\* C11 witness: a canvas click has toggled a cell of a paused game, after
\* the first generation, with nothing queued.
C11_Witness ==
  /\ pc = "idle" /\ animationId = Null /\ pending = {}
  /\ handler = "canvas" /\ Len(toggled) = 1 /\ generation >= 1

\* the calls of the last handler that change the universe
Mutates(name) == name \in {"tick", "toggle_cell"}

\* in the last handler, a drawCells call follows every change of the universe
DrawnAfterLastMutation ==
  \A i \in DOMAIN calls :
    Mutates(calls[i]) => \E j \in (i + 1)..Len(calls) : calls[j] = "drawCells"

\* the cells the canvas shows alive, and the cells alive in the universe
PaintedAlive ==
  {n \in 0..(Len(fills) - 1) : fills[n + 1].fillStyle = ALIVE_COLOR}
UniverseAlive == {n \in 0..(NCells - 1) : PackedBit(cells, n) = 1}

\* C12, as stated: after startup and after every completed handler the most
\* recent drawCells call happened after the most recent tick or toggle_cell,
\* so what is drawn equals the current cell state of the universe.
C12_CanvasNeverStale ==
  pc = "idle" =>
    /\ DrawnAfterLastMutation
    /\ Len(fills) = NCells
    /\ PaintedAlive = UniverseAlive

\* the button shows the pause symbol exactly when the game runs and the play
\* symbol exactly when it is paused
LabelReflectsState ==
  /\ (buttonText = PAUSE_SYMBOL) <=> (animationId # Null)
  /\ (buttonText = PLAY_SYMBOL) <=> (animationId = Null)

\* C13: between handlers after startup the button's label reflects the
\* running/paused state (first conjunct); every click on the button flips
\* the state and the label together, so that a second click restores both
\* (second conjunct: a click on the button is the step that ends with
\* handler = "button").
C13_LabelReflectsState ==
  /\ [](pc = "idle" => LabelReflectsState)
  /\ [][handler' = "button"
          => /\ (animationId' = Null) <=> (animationId # Null)
             /\ buttonText' # buttonText
             /\ buttonText' \in {PAUSE_SYMBOL, PLAY_SYMBOL}
             /\ buttonText \in {PAUSE_SYMBOL, PLAY_SYMBOL}]_vars

\* C13 witness: two clicks on the button, a pause and then a play, have
\* restored the running state and the pause symbol.
C13_Witness ==
  /\ pc = "idle" /\ handler = "button" /\ "play" \in Range(calls)
  /\ buttonText = PAUSE_SYMBOL /\ animationId # Null

\* C14: a canvas click (the step that counts a click) leaves animationId,
\* the queued frame callbacks and the button's label unchanged and calls
\* universe.tick() zero times, whether the game runs or is paused.
C14_ClickLeavesScheduling ==
  [][clicks' # clicks
       => /\ animationId' = animationId
          /\ pending' = pending
          /\ buttonText' = buttonText
          /\ Count(calls', "tick") = 0
          /\ generation' = generation
          /\ handler' = "canvas"]_vars

\* C14 witness: a canvas click has been handled while the game runs, its
\* callback still queued.
C14_Witness ==
  /\ handler = "canvas" /\ clicks >= 1 /\ Len(toggled) = 1
  /\ animationId # Null /\ pending = {animationId}
  /\ buttonText = PAUSE_SYMBOL

\* C15: with a host that eventually fires every queued callback that is not
\* cancelled, from every running state (of a run the model has not cut off
\* at MaxTicks renders) either the game is paused or universe.tick() is
\* eventually called again: the generation advances beyond its value there.
C15_LoopSustainsItself ==
  \A g \in 0..(MaxTicks - 1) :
    (pc = "idle" /\ animationId # Null /\ generation = g
       /\ renders < MaxTicks)
      ~> (animationId = Null \/ generation > g)

\* C15 witness: the host has fired a callback of a running game, which has
\* ticked again and queued the next callback.
C15_Witness ==
  /\ pc = "idle" /\ handler = "frame" /\ generation >= 2
  /\ animationId # Null /\ animationId \in pending

====
